---- MODULE Spec2Model ----
(***************************************************************************)
(* JumpNet Capability Enumeration Protocol (clients/arduino/cep.h).        *)
(*                                                                         *)
(* The model follows the class CEP: the chipset registry                   *)
(* (registerChipset) and one document generation (getCapabilitiesJSON),    *)
(* whose I2C scan is taken one probed address at a time.  The class is     *)
(* single-threaded: registerChipset runs between calls, and the model      *)
(* takes the registrations before the first generation (a registration     *)
(* made after a generation leaves the registry as the same registration    *)
(* made before it would).                                                  *)
(*                                                                         *)
(* An Arduino String is a sequence of tokens.  A token is a record with a  *)
(* field tok: a separator, a bracket, the text of a character buffer (its  *)
(* characters), a quoted string or a JSON object (its members).  The       *)
(* empty String is <<>>.                                                   *)
(*                                                                         *)
(* found[64] is a local array of _appendI2C and the scan stores one byte   *)
(* in it per acknowledging address, without a test of the index.  A store  *)
(* past its end is undefined behaviour; scanOverflow takes one of          *)
(* OobOutcomes for it, and matchChipsets one of GarbageBytes for each      *)
(* entry it reads back that no store of the scan backs.                    *)
(***************************************************************************)
EXTENDS Integers, Sequences, FiniteSets, TLC

\* ---------------------------------------------------------------- constants

MAX_CHIPSETS == 16
FOUND_SIZE == 64
FIRST_ADDR == 1
END_ADDR == 127
HEX_SIZE == 7

\* Bounds of the model: the registerChipset calls under SpecReg, the
\* registerChipset calls under Spec, and by how many the acknowledging
\* addresses of a full bus exceed FOUND_SIZE.
MaxRegCalls == 18
MaxGenRegs == 2
MaxOverflow == 1

Min(a, b) == IF a < b THEN a ELSE b

\* ------------------------------------------------------------------ tokens

Comma == [tok |-> ","]
LBracket == [tok |-> "["]
RBracket == [tok |-> "]"]

\* ------------------------------------------------------ chipset descriptors

\* The terminator of a provides list.
nullptr == "nullptr"

BME280_Chip ==
    [name |-> "bme280", i2cAddresses |-> <<118, 119, 0>>,
     provides |-> <<"temperature", "humidity", "pressure", nullptr>>,
     bus |-> "i2c", describe |-> "default"]

MPU6050_Chip ==
    [name |-> "mpu6050", i2cAddresses |-> <<104, 105, 0>>,
     provides |-> <<"acceleration", "gyroscope", "temperature", nullptr>>,
     bus |-> "i2c", describe |-> "default"]

SSD1306_Chip ==
    [name |-> "ssd1306", i2cAddresses |-> <<60, 61, 0>>,
     provides |-> <<"display", nullptr>>,
     bus |-> "i2c", describe |-> "ssd1306"]

\* Descriptors a caller may write against struct CepChipsetDescriptor:
\* one that lists an address twice (and shares it with the bme280), one whose
\* bus is "spi", one whose describe override throws.
DupAddr_Chip ==
    [name |-> "dupaddr", i2cAddresses |-> <<118, 118, 0>>,
     provides |-> <<"pressure", nullptr>>,
     bus |-> "i2c", describe |-> "default"]

SpiBus_Chip ==
    [name |-> "spibus", i2cAddresses |-> <<117, 0>>,
     provides |-> <<"uart", nullptr>>,
     bus |-> "spi", describe |-> "default"]

Throwing_Chip ==
    [name |-> "throwing", i2cAddresses |-> <<60, 0>>,
     provides |-> <<"display", nullptr>>,
     bus |-> "i2c", describe |-> "throws"]

\* A registry slot holds a pointer; a pointer is the descriptor's variable name.
Deref(ptr) ==
    CASE ptr = "BME280_Chip" -> BME280_Chip
      [] ptr = "MPU6050_Chip" -> MPU6050_Chip
      [] ptr = "SSD1306_Chip" -> SSD1306_Chip
      [] ptr = "DupAddr_Chip" -> DupAddr_Chip
      [] ptr = "SpiBus_Chip" -> SpiBus_Chip
      [] ptr = "Throwing_Chip" -> Throwing_Chip

\* The descriptors registered under SpecReg and under Spec.
RegKinds == {"BME280_Chip", "MPU6050_Chip"}
GenKinds == {"BME280_Chip", "SSD1306_Chip", "DupAddr_Chip", "SpiBus_Chip",
             "Throwing_Chip"}

\* The value of a slot of _chipsets that was never assigned.
Unassigned == "unassigned"

\* ------------------------------------------------------------------- state

VARIABLES
    ESP32,          \* the build: #ifdef ESP32
    _chipsets,      \* const CepChipsetDescriptor* _chipsets[MAX_CHIPSETS]
    _numChipsets,   \* int _numChipsets
    regCalls,       \* history: the argument of every registerChipset call
    regRet,         \* what the last registerChipset call gave its caller
    pc,             \* where getCapabilitiesJSON stands
    caps,           \* String caps
    sensors,        \* String sensors
    devices,        \* String devices
    first,          \* bool first
    found,          \* uint8_t found[64], and the bytes stored past its end
    nFound,         \* int nFound
    addr,           \* uint8_t addr
    acked,          \* history: the addresses whose probe was acknowledged
    oob,            \* history: number of stores past the end of found
    thrown,         \* history: a describe override threw
    doc             \* the String getCapabilitiesJSON returned

vars == <<ESP32, _chipsets, _numChipsets, regCalls, regRet, pc, caps, sensors,
          devices, first, found, nFound, addr, acked, oob, thrown, doc>>

regVars == <<_chipsets, _numChipsets, regCalls, regRet>>
genVars == <<pc, caps, sensors, devices, first, found, nFound, addr, acked,
             oob, thrown, doc>>

\* CEP() : _numChipsets(0) {}
Init ==
    /\ ESP32 \in BOOLEAN
    /\ _chipsets = [s \in 0..(MAX_CHIPSETS - 1) |-> Unassigned]
    /\ _numChipsets = 0
    /\ regCalls = <<>>
    /\ regRet = "none"
    /\ pc = "idle"
    /\ caps = <<>>
    /\ sensors = <<>>
    /\ devices = <<>>
    /\ first = TRUE
    /\ found = <<>>
    /\ nFound = 0
    /\ addr = 0
    /\ acked = {}
    /\ oob = 0
    /\ thrown = FALSE
    /\ doc = <<>>

\* ---------------------------------------------------------------- registry

\* A faulty capacity test, off by one.
HasRoom_OffByOne(n) == n <= MAX_CHIPSETS

\* if (_numChipsets < MAX_CHIPSETS)
HasRoom(n) == n < MAX_CHIPSETS

\* _chipsets[_numChipsets++] = chip;
StoreChip(arr, n, chip) == [arr EXCEPT ![n] = chip]

\* void registerChipset(const CepChipsetDescriptor* chip)
registerChipset(chip) ==
    /\ pc = "idle"
    /\ IF HasRoom(_numChipsets)
       THEN /\ _chipsets' = StoreChip(_chipsets, _numChipsets, chip)
            /\ _numChipsets' = _numChipsets + 1
       ELSE UNCHANGED <<_chipsets, _numChipsets>>
    /\ regCalls' = Append(regCalls, chip)
    /\ regRet' = "void"
    /\ UNCHANGED <<ESP32, genVars>>

NextReg ==
    \E chip \in RegKinds :
        Len(regCalls) < MaxRegCalls /\ registerChipset(chip)

SpecReg == Init /\ [][NextReg]_vars

\* ------------------------------------------------------------- formatting

HexDigits ==
    <<"0", "1", "2", "3", "4", "5", "6", "7", "8", "9", "a", "b", "c", "d",
      "e", "f">>

\* %02x of a uint8_t: two lowercase digits.
Hex02(b) == <<HexDigits[((b \div 16) % 16) + 1], HexDigits[(b % 16) + 1]>>

\* snprintf(buf, size, ...) keeps at most size-1 characters.
Snprintf(size, chars) == SubSeq(chars, 1, Min(Len(chars), size - 1))

\* snprintf(hex, sizeof(hex), "0x%02x", address)
FormatAddress(b) == Snprintf(HEX_SIZE, <<"0", "x">> \o Hex02(b))

\* snprintf(hex, sizeof(hex), "\"0x%02x\"", addr)
FormatQuotedAddress(b) ==
    Snprintf(HEX_SIZE, <<"\"", "0", "x">> \o Hex02(b) \o <<"\"">>)

\* String(hex): the characters as they stand in the buffer.
Text(chars) == [tok |-> "text", chars |-> chars]

\* "\"" + String(str) + "\""
QuotedStr(str) == [tok |-> "string", str |-> str]

\* ----------------------------------------------------------- describe hooks

\* SSD1306ChipDescriptor::describe
SSD1306_describe(busId, address) ==
    <<[tok |-> "object", type |-> "display", chipset |-> "ssd1306",
       bus |-> "i2c", bus_id |-> busId, address |-> FormatAddress(address),
       width_px |-> 128, height_px |-> 64, color |-> FALSE]>>

\* chip->describe(busId, address), for a hook that returns.
\* CepChipsetDescriptor::describe returns "".
Describe(chip, busId, address) ==
    IF chip.describe = "ssd1306" THEN SSD1306_describe(busId, address)
    ELSE <<>>

\* The hook leaves by an exception instead of returning.
DescribeThrows(chip) == chip.describe = "throws"

\* ------------------------------------------------------ generic fragment

\* for (int p = 0; chip->provides[p] != nullptr; p++) { ... }
RECURSIVE ProvidesLoop(_, _, _, _)
ProvidesLoop(provides, p, fp, s) ==
    IF provides[p] = nullptr THEN s
    ELSE ProvidesLoop(provides, p + 1, FALSE,
                      (IF ~fp THEN s \o <<Comma>> ELSE s)
                          \o <<QuotedStr(provides[p])>>)

\* The default sensor JSON of a chip matched at address.
GenericFragment(chip, address) ==
    <<[tok |-> "object", type |-> "sensor", chipset |-> chip.name,
       bus |-> "i2c", bus_id |-> 0, address |-> FormatAddress(address),
       provides |-> ProvidesLoop(chip.provides, 1, TRUE, <<>>)]>>

\* A faulty rendering: the result of the hook is used as it is, empty or not.
RenderMatch_NoFallback(chip, address) == Describe(chip, 0, address)

\* String s: custom when it is not empty, the default otherwise.
RenderMatch(chip, address) ==
    LET custom == Describe(chip, 0, address)
    IN  IF Len(custom) > 0 THEN custom ELSE GenericFragment(chip, address)

\* if (!firstSensor) sensors += ","; sensors += s;
AppendSensor(st, s) ==
    [st EXCEPT !.sensors = (IF ~st.firstSensor THEN @ \o <<Comma>> ELSE @) \o s,
               !.firstSensor = FALSE]

\* for (int k = 0; chip->i2cAddresses[k] != 0; k++): st is the state of the
\* loops, [sensors, firstSensor, thrown]; an exception ends every loop.
RECURSIVE AddressLoop(_, _, _, _)
AddressLoop(chip, fnd, k, st) ==
    IF st.thrown \/ chip.i2cAddresses[k] = 0 THEN st
    ELSE IF chip.i2cAddresses[k] = fnd
         THEN IF DescribeThrows(chip)
              THEN [st EXCEPT !.thrown = TRUE]
              ELSE AddressLoop(chip, fnd, k + 1,
                               AppendSensor(st, RenderMatch(chip, fnd)))
         ELSE AddressLoop(chip, fnd, k + 1, st)

\* for (int c = 0; c < _numChipsets; c++)
RECURSIVE ChipLoop(_, _, _, _, _)
ChipLoop(chips, n, fnd, c, st) ==
    IF st.thrown \/ ~(c < n) THEN st
    ELSE ChipLoop(chips, n, fnd, c + 1,
                  AddressLoop(Deref(chips[c]), fnd, 1, st))

\* for (int i = 0; i < nFound; i++): mem[i + 1] is what found[i] reads.
RECURSIVE FoundLoop(_, _, _, _, _, _)
FoundLoop(chips, n, mem, cnt, i, st) ==
    IF st.thrown \/ ~(i < cnt) THEN st
    ELSE FoundLoop(chips, n, mem, cnt, i + 1,
                   ChipLoop(chips, n, mem[i + 1], 0, st))

\* --------------------------------------------------------------- the bus

\* The sets of addresses that acknowledge: every set of a few addresses the
\* descriptors name, and a bus on which n consecutive addresses all answer,
\* n from FOUND_SIZE to FOUND_SIZE + MaxOverflow.
Interesting == {60, 117, 118}
FloodStart == END_ADDR - (FOUND_SIZE + MaxOverflow)
FloodEnds == (FloodStart + FOUND_SIZE - 1)..(END_ADDR - 1)

\* The answers up to address a agree with one of those sets.
Possible(answers, a) ==
    IF answers \subseteq Interesting THEN TRUE
    ELSE {e \in FloodEnds : answers = FloodStart..Min(a, e)} # {}

\* Wire.endTransmission() == 0 may be ack at addr, given the answers so far.
MayAnswer(ack) ==
    Possible(IF ack THEN acked \cup {addr} ELSE acked, addr)

\* What a store past the end of found does: the byte lands in unused stack
\* and stays there, lands in stack that is rewritten before it is read back,
\* lands in the String devices and shortens it, or ends the program.
OobOutcomes == {"spill", "lost", "string", "crash"}

\* What a read of found[i] gives where no store of the scan is kept.
GarbageBytes == {0, 117}

\* The lengths a clobbered String devices is cut to.
CutLengths(s) == {0, Len(s) \div 2}

\* ------------------------------------------------------ platform facts

\* _appendCompute
ComputeObject ==
    IF ESP32
    THEN [tok |-> "object", type |-> "compute", mhz |-> "ESP.getCpuFreqMHz()",
          ram_kb |-> "ESP.getHeapSize()/1024",
          flash_kb |-> "ESP.getFlashChipSize()/1024"]
    ELSE [tok |-> "object", type |-> "compute"]

\* The object _appendI2C adds to caps.
I2CObject(devs) ==
    [tok |-> "object", type |-> "i2c",
     buses |-> <<[id |-> 0, sda |-> 21, scl |-> 22, freq_hz |-> 100000,
                  devices_found |-> devs]>>]

\* _appendGPIO
GPIOObject ==
    IF ESP32
    THEN [tok |-> "object", type |-> "gpio",
          digital_out |-> <<2, 4, 5, 12, 13, 14, 15, 16, 17, 18, 19, 21, 22,
                            23, 25, 26, 27, 32, 33>>,
          digital_in |-> <<32, 33, 34, 35, 36, 39>>]
    ELSE [tok |-> "object", type |-> "gpio"]

\* _appendADC
ADCObject ==
    [tok |-> "object", type |-> "adc", pins |-> <<32, 33, 34, 35, 36, 39>>,
     resolution |-> 12, channels |-> 6]

\* _appendNetwork
NetworkObject ==
    [tok |-> "object", type |-> "network",
     interfaces |-> <<[kind |-> "wifi", mac |-> "esp_read_mac()"]>>]

\* _deviceObject, _deviceId
DeviceObject ==
    [id |-> IF ESP32 THEN "ESP.getEfuseMac()" ELSE "arduino-ARDUINO_BOARD",
     class |-> "microcontroller", transport |-> "serial",
     model |-> "ARDUINO_BOARD", firmware |-> "ESP_ARDUINO_VERSION"]

\* --------------------------------------------------- getCapabilitiesJSON

\* Entry of getCapabilitiesJSON up to the scan loop of _appendI2C:
\* _appendCompute(caps); caps += ","; String sensors = ""; devices = "[".
getCapabilitiesJSON ==
    /\ pc \in {"idle", "done"}
    /\ pc' = "scan"
    /\ caps' = <<ComputeObject, Comma>>
    /\ sensors' = <<>>
    /\ devices' = <<LBracket>>
    /\ first' = TRUE
    /\ found' = <<>>
    /\ nFound' = 0
    /\ addr' = FIRST_ADDR
    /\ acked' = {}
    /\ oob' = 0
    /\ thrown' = FALSE
    /\ doc' = <<>>
    /\ UNCHANGED <<ESP32, regVars>>

\* if (!first) devices += ","; devices += String(hex); first = false;
AppendDevice(devs, isFirst, a) ==
    (IF ~isFirst THEN devs \o <<Comma>> ELSE devs)
        \o <<Text(FormatQuotedAddress(a))>>

\* found[nFound++] = addr, the index inside the array.
InBounds(n) == n < FOUND_SIZE

\* One turn of for (uint8_t addr = 1; addr < 127; addr++) whose probe is not
\* acknowledged.
scanSilent ==
    /\ pc = "scan"
    /\ addr < END_ADDR
    /\ MayAnswer(FALSE)
    /\ addr' = addr + 1
    /\ UNCHANGED <<ESP32, regVars, pc, caps, sensors, devices, first, found,
                   nFound, acked, oob, thrown, doc>>

\* One turn whose probe is acknowledged and whose store is inside found.
scanFound ==
    /\ pc = "scan"
    /\ addr < END_ADDR
    /\ MayAnswer(TRUE)
    /\ InBounds(nFound)
    /\ found' = Append(found, addr)
    /\ nFound' = nFound + 1
    /\ devices' = AppendDevice(devices, first, addr)
    /\ first' = FALSE
    /\ acked' = acked \cup {addr}
    /\ addr' = addr + 1
    /\ UNCHANGED <<ESP32, regVars, pc, caps, sensors, oob, thrown, doc>>

\* One turn whose probe is acknowledged and whose store is past the end of
\* found: undefined behaviour, one of OobOutcomes.
scanOverflow ==
    /\ pc = "scan"
    /\ addr < END_ADDR
    /\ MayAnswer(TRUE)
    /\ ~InBounds(nFound)
    /\ acked' = acked \cup {addr}
    /\ oob' = oob + 1
    /\ \E outcome \in OobOutcomes :
        IF outcome = "crash"
        THEN /\ pc' = "crashed"
             /\ UNCHANGED <<found, nFound, devices, first, addr>>
        ELSE /\ pc' = pc
             /\ found' = IF outcome = "spill" /\ Len(found) = nFound
                         THEN Append(found, addr) ELSE found
             /\ nFound' = nFound + 1
             /\ \E cut \in (IF outcome = "string" THEN CutLengths(devices)
                            ELSE {Len(devices)}) :
                    devices' = AppendDevice(SubSeq(devices, 1, cut), first, addr)
             /\ first' = FALSE
             /\ addr' = addr + 1
    /\ UNCHANGED <<ESP32, regVars, caps, sensors, thrown, doc>>

\* After the loop: devices += "]"; caps += ",{\"type\":\"i2c\",...}".
busSummary ==
    /\ pc = "scan"
    /\ ~(addr < END_ADDR)
    /\ pc' = "match"
    /\ devices' = devices \o <<RBracket>>
    /\ caps' = caps \o <<Comma, I2CObject(devices')>>
    /\ UNCHANGED <<ESP32, regVars, sensors, first, found, nFound, addr, acked,
                   oob, thrown, doc>>

\* Match found addresses to chipset plugins: the three nested loops.  A read
\* of found[i] that no store of the scan backs gives one of GarbageBytes.
\* An exception of a describe override leaves getCapabilitiesJSON.
matchChipsets ==
    /\ pc = "match"
    /\ \E garbage \in [1..(nFound - Len(found)) -> GarbageBytes] :
        \E st \in {FoundLoop(_chipsets, _numChipsets, found \o garbage,
                             nFound, 0,
                             [sensors |-> sensors, firstSensor |-> TRUE,
                              thrown |-> FALSE])} :
            /\ found' = found \o garbage
            /\ sensors' = st.sensors
            /\ thrown' = st.thrown
            /\ pc' = IF st.thrown THEN "aborted" ELSE "assemble"
    /\ UNCHANGED <<ESP32, regVars, caps, devices, first, nFound, addr, acked,
                   oob, doc>>

\* if (sensors.length() > 0) caps += "," + sensors;
AddSensors(c, s) == IF Len(s) > 0 THEN c \o <<Comma>> \o s ELSE c

\* _appendGPIO(caps); _appendADC(caps); caps += ","; _appendNetwork(caps);
AddPlatform(c) ==
    IF ESP32
    THEN c \o <<Comma, GPIOObject>> \o <<Comma, ADCObject>>
           \o <<Comma>> \o <<NetworkObject>>
    ELSE c \o <<Comma, GPIOObject>>

\* The rest of getCapabilitiesJSON, from the return of _appendI2C.
assemble ==
    /\ pc = "assemble"
    /\ pc' = "done"
    /\ caps' = AddPlatform(AddSensors(caps, sensors))
    /\ doc' = <<[tok |-> "object", device |-> DeviceObject,
                 capabilities |-> <<LBracket>> \o caps' \o <<RBracket>>]>>
    /\ UNCHANGED <<ESP32, regVars, sensors, devices, first, found, nFound,
                   addr, acked, oob, thrown>>

register ==
    \E chip \in GenKinds :
        Len(regCalls) < MaxGenRegs /\ registerChipset(chip)

Next ==
    \/ register
    \/ getCapabilitiesJSON
    \/ scanSilent
    \/ scanFound
    \/ scanOverflow
    \/ busSummary
    \/ matchChipsets
    \/ assemble

Spec == Init /\ [][Next]_vars

\* ------------------------------------------------- reading a document back

IsObject(t) == t.tok = "object"
IsText(t) == t.tok = "text"
IsString(t) == t.tok = "string"

\* The JSON objects of a String, in order.
Objects(s) == SelectSeq(s, IsObject)

\* The value of a lowercase hexadecimal digit, -1 for any other character.
HexValue(ch) ==
    IF \E v \in 0..15 : HexDigits[v + 1] = ch
    THEN CHOOSE v \in 0..15 : HexDigits[v + 1] = ch
    ELSE -1

\* The number 0xhh denotes, -1 when chars is not "0x" and two such digits.
ParseAddress(chars) ==
    IF /\ Len(chars) = 4
       /\ chars[1] = "0"
       /\ chars[2] = "x"
       /\ HexValue(chars[3]) >= 0
       /\ HexValue(chars[4]) >= 0
    THEN 16 * HexValue(chars[3]) + HexValue(chars[4])
    ELSE -1

\* The number "0xhh" (in quotes) denotes, -1 when chars is not of that form.
ParseQuotedAddress(chars) ==
    IF Len(chars) = 6 /\ chars[1] = "\"" /\ chars[6] = "\""
    THEN ParseAddress(SubSeq(chars, 2, 5))
    ELSE -1

\* The elements of a finite set of numbers, ascending.
RECURSIVE Ascending(_)
Ascending(S) ==
    IF S = {} THEN <<>>
    ELSE LET m == CHOOSE x \in S : \A y \in S : x <= y
         IN  <<m>> \o Ascending(S \ {m})

\* The addresses a descriptor lists, up to the terminator.
Listed(chip) ==
    {chip.i2cAddresses[k] : k \in 1..Len(chip.i2cAddresses)} \ {0}

\* The matches of the registry on a list of addresses: for each address of
\* the list in turn, each registered descriptor in registration order, each
\* position of its address list that holds the address.
RECURSIVE MatchesOfChip(_, _, _)
MatchesOfChip(chip, a, k) ==
    IF chip.i2cAddresses[k] = 0 THEN <<>>
    ELSE (IF chip.i2cAddresses[k] = a
          THEN <<[chip |-> chip, address |-> a]>> ELSE <<>>)
         \o MatchesOfChip(chip, a, k + 1)

RECURSIVE MatchesAt(_, _)
MatchesAt(c, a) ==
    IF c >= _numChipsets THEN <<>>
    ELSE MatchesOfChip(Deref(_chipsets[c]), a, 1) \o MatchesAt(c + 1, a)

RECURSIVE MatchesFrom(_, _)
MatchesFrom(i, list) ==
    IF i > Len(list) THEN <<>>
    ELSE MatchesAt(0, list[i]) \o MatchesFrom(i + 1, list)

\* The matches the engine works on: found[0..nFound-1] as the loops read it.
FoundMatches == MatchesFrom(1, SubSeq(found, 1, nFound))

\* The capabilities list of the returned document, and its devices_found.
Capabilities == doc[1].capabilities
IsI2C(o) == o.type = "i2c"
DevicesFound == SelectSeq(Objects(Capabilities), IsI2C)[1].buses[1].devices_found

\* -------------------------------------------------------------------- C1
\* C1: a registerChipset call made when the registry already holds
\* MAX_CHIPSETS descriptors gives its caller an outcome that differs from the
\* outcome of a successful registration ("void": nothing is returned).
C1_RegistryFullReported ==
    Len(regCalls) > MAX_CHIPSETS => regRet # "void"

\* -------------------------------------------------------------------- C2
\* C2: after n registerChipset calls the registry holds exactly the first
\* min(n, MAX_CHIPSETS) arguments, in call order, in slots 0.._numChipsets-1
\* (the slots the matching loop reads), and the count never exceeds
\* MAX_CHIPSETS; a call beyond capacity therefore changes neither.
C2_RegistryHoldsFirst ==
    /\ _numChipsets = Min(Len(regCalls), MAX_CHIPSETS)
    /\ _numChipsets <= MAX_CHIPSETS
    /\ \A j \in 0..(_numChipsets - 1) : _chipsets[j] = regCalls[j + 1]
    /\ \A j \in _numChipsets..(MAX_CHIPSETS - 1) : _chipsets[j] = Unassigned

\* A call beyond capacity was made, with a descriptor other than the last
\* one stored.
C2_Witness ==
    /\ Len(regCalls) > MAX_CHIPSETS
    /\ regCalls[MAX_CHIPSETS + 1] # regCalls[MAX_CHIPSETS]
    /\ _numChipsets = MAX_CHIPSETS

\* -------------------------------------------------------------------- C3
\* C3: the sensor fragments of a returned document are the fragments of the
\* matches taken address by address in ascending order of the acknowledging
\* addresses and, for one address, descriptor by descriptor in registration
\* order: a sequence fixed by the registry and the set of acknowledging
\* addresses.
C3_FragmentsInScanOrder ==
    pc = "done" =>
        LET ms == MatchesFrom(1, Ascending(acked))
        IN  Objects(sensors) =
                [j \in 1..Len(ms) |-> RenderMatch(ms[j].chip, ms[j].address)[1]]

\* -------------------------------------------------------------------- C4
\* C4: in a returned document built without a store past the end of found,
\* the number of sensor fragments for an acknowledging address is the number
\* of registered descriptors that list the address, each counted once.
FragmentsAt(a) ==
    LET At(o) == ParseAddress(o.address) = a
    IN  Len(SelectSeq(Objects(sensors), At))

ListingDescriptors(a) ==
    {c \in 0..(_numChipsets - 1) : a \in Listed(Deref(_chipsets[c]))}

C4_OneFragmentPerListingDescriptor ==
    (pc = "done" /\ oob = 0) =>
        \A a \in acked : FragmentsAt(a) = Cardinality(ListingDescriptors(a))

\* -------------------------------------------------------------------- C5
\* C5: in a returned document every match the engine worked on (an entry of
\* found equal to an address a registered descriptor lists) has its own
\* fragment, in match order: the fragment the describe hook returned when
\* that is not empty, and otherwise a fragment of type "sensor" for that
\* descriptor and address.
FragmentOfMatch(f, m) ==
    LET custom == Describe(m.chip, 0, m.address)
    IN  IF Len(custom) > 0
        THEN f = custom[1]
        ELSE /\ f.type = "sensor"
             /\ f.chipset = m.chip.name
             /\ ParseAddress(f.address) = m.address

C6_RenderFaultContained ==
    thrown => pc # "aborted"

\* -------------------------------------------------------------------- C7
\* C7: the scan of a returned document went through every address, and its
\* devices_found is the bracketed list of the acknowledging addresses, each
\* as "0xhh" in quotes, ascending, one separator between neighbours.
C7_DevicesFoundExact ==
    pc = "done" =>
        LET d == DevicesFound
            asc == Ascending(acked)
            n == Len(asc)
        IN  /\ addr = END_ADDR
            /\ acked \subseteq FIRST_ADDR..(END_ADDR - 1)
            /\ Len(d) = (IF n = 0 THEN 2 ELSE 2 * n + 1)
            /\ d[1] = LBracket
            /\ d[Len(d)] = RBracket
            /\ \A j \in 1..n :
                   /\ IsText(d[2 * j])
                   /\ ParseQuotedAddress(d[2 * j].chars) = asc[j]
                   /\ j < n => d[2 * j + 1] = Comma

\* -------------------------------------------------------------------- C8
\* C8: the capabilities list of a document built without a store past the
\* end of found is a bracketed list whose entries are compute, i2c, the
\* sensor fragments, gpio and, on ESP32, adc and network, with exactly one
\* separator between neighbours and nothing else.
EntryTypes(objs) == [j \in 1..Len(objs) |-> objs[j].type]

C8_CapabilitiesWellFormed ==
    (pc = "done" /\ oob = 0) =>
        LET t == Capabilities
            inner == SubSeq(t, 2, Len(t) - 1)
        IN  /\ t[1] = LBracket
            /\ t[Len(t)] = RBracket
            /\ Len(inner) % 2 = 1
            /\ \A j \in 1..Len(inner) :
                   IF j % 2 = 1 THEN IsObject(inner[j]) ELSE inner[j] = Comma
            /\ EntryTypes(Objects(inner)) =
                   <<"compute", "i2c">> \o EntryTypes(Objects(sensors))
                       \o (IF ESP32 THEN <<"gpio", "adc", "network">>
                           ELSE <<"gpio">>)

\* -------------------------------------------------------------------- C9
\* C9: in a document built without a store past the end of found, the
\* fragment of a match whose hook returned the empty String has type
\* "sensor", the descriptor's name, the descriptor's bus, bus id 0, the
\* address as "0x" and two lowercase hexadecimal digits, and the descriptor's
\* provides list, entry by entry.
Strings(s) ==
    LET strs == SelectSeq(s, IsString)
    IN  [j \in 1..Len(strs) |-> strs[j].str]

GenericFragmentOf(f, chip, a) ==
    /\ f.type = "sensor"
    /\ f.chipset = chip.name
    /\ f.bus = chip.bus
    /\ f.bus_id = 0
    /\ ParseAddress(f.address) = a
    /\ Strings(f.provides) = SubSeq(chip.provides, 1, Len(chip.provides) - 1)
    /\ Len(f.provides) = 2 * Len(Strings(f.provides)) - 1

C9_GenericFragmentFields ==
    (pc = "done" /\ oob = 0) =>
        LET ms == FoundMatches
            fs == Objects(sensors)
        IN  /\ Len(fs) = Len(ms)
            /\ \A j \in 1..Len(ms) :
                   Len(Describe(ms[j].chip, 0, ms[j].address)) = 0 =>
                       GenericFragmentOf(fs[j], ms[j].chip, ms[j].address)

\* ------------------------------------------------------------------- C10
\* C10: every store of a responding address is inside found, the count never
\* exceeds FOUND_SIZE, and what the matching step reads is the acknowledging
\* addresses.
C10_StoresInsideFound ==
    /\ oob = 0
    /\ nFound <= FOUND_SIZE
    /\ pc \in {"match", "assemble", "done"} =>
           SubSeq(found, 1, nFound) = Ascending(acked)

====
